---- MODULE Spec2Model ----
(***************************************************************************)
(* Geocoding back end of the Islamabad GIS platform (backend/index.js):    *)
(* the start-up load of enrichedPois.geojson and the handlers of           *)
(* GET /search, /reverse, /api/geocoding/status and /api/pois; the search  *)
(* bar (SearchBar.jsx) and the POI loading of the map view (MapView.jsx).  *)
(*                                                                         *)
(* Text values (names, the q parameter, the lat and lng parameters) are    *)
(* sequences of one-character strings, so that toLowerCase, trim, includes *)
(* and parseFloat are computed character by character.  Distances are      *)
(* great-circle distances in whole metres.                                 *)
(***************************************************************************)
EXTENDS Integers, Sequences, FiniteSets, TLC

\* ------------------------------------------------------------------ bounds
MaxPOIs == 2          \* longest dataset of freely chosen records
MaxPad == 1           \* filler counts run from MaxResults-1 to MaxResults-1+MaxPad
MaxQueryLen == 3      \* longest q parameter

\* --------------------------------------------------------- program constant
MaxResults == 20      \* .slice(0, 20)

\* ------------------------------------------------------- JavaScript values
undefined == <<"<undefined>">>      \* a text member that is absent
NoValue == "<undefined>"            \* a tag member that is absent
NaN == -999999999
Infinity == 999999999

\* a repeated parameter (?q=a&q=b) arrives as an array: the marker followed
\* by the characters of the items joined by commas
ArrayOf(joined) == <<"<array>">> \o joined

IsArray(v) == v /= <<>> /\ Head(v) = "<array>"

\* v.toString(): an array is its items joined by commas
toString(v) == IF IsArray(v) THEN Tail(v) ELSE v

\* only a missing parameter is rejected, the empty text is not
Falsy_missingOnly(s) == s = undefined

Falsy(s) == s = undefined \/ s = <<>>
FalsyTag(t) == t = NoValue \/ t = ""

\* a || b || c on text values
OrElse(a, b, c) == IF ~Falsy(a) THEN a ELSE IF ~Falsy(b) THEN b ELSE c
OrElseTag(a, b, c) == IF ~FalsyTag(a) THEN a ELSE IF ~FalsyTag(b) THEN b ELSE c

IsWhiteSpace(c) == c \in {" ", "\t"}

LowerChar(c) == IF c = "A" THEN "a" ELSE IF c = "B" THEN "b" ELSE c

toLowerCase(s) == [i \in 1..Len(s) |-> LowerChar(s[i])]

RECURSIVE trimStart(_)
trimStart(s) ==
  IF s /= <<>> /\ IsWhiteSpace(Head(s)) THEN trimStart(Tail(s)) ELSE s

RECURSIVE trimEnd(_)
trimEnd(s) ==
  IF s /= <<>> /\ IsWhiteSpace(s[Len(s)])
    THEN trimEnd(SubSeq(s, 1, Len(s) - 1))
    ELSE s

trim(s) == trimEnd(trimStart(s))

\* s.includes(t)
includes(s, t) ==
  \E i \in 0..(Len(s) - Len(t)) : SubSeq(s, i + 1, i + Len(t)) = t

\* s.indexOf(t), -1 when absent
indexOf(s, t) ==
  IF includes(s, t)
    THEN CHOOSE i \in 0..(Len(s) - Len(t)) :
           /\ SubSeq(s, i + 1, i + Len(t)) = t
           /\ \A j \in 0..(i - 1) : SubSeq(s, j + 1, j + Len(t)) /= t
    ELSE -1

IsDigit(c) == c \in {"0", "1", "2", "3", "4", "5", "6", "7", "8", "9"}

DigitValue(c) ==
  CASE c = "0" -> 0 [] c = "1" -> 1 [] c = "2" -> 2 [] c = "3" -> 3
    [] c = "4" -> 4 [] c = "5" -> 5 [] c = "6" -> 6 [] c = "7" -> 7
    [] c = "8" -> 8 [] c = "9" -> 9

\* value of the longest run of digits at the head of s, acc digits read so far
RECURSIVE LeadingDigits(_, _, _)
LeadingDigits(s, acc, seen) ==
  IF s /= <<>> /\ IsDigit(Head(s))
    THEN LeadingDigits(Tail(s), acc * 10 + DigitValue(Head(s)), TRUE)
    ELSE IF seen THEN acc ELSE NaN

\* parseFloat: the longest numeric prefix, NaN when there is none; the
\* literal Infinity is one token of the text
parseFloat(s) ==
  IF toString(s) /= <<>> /\ Head(toString(s)) = "Infinity" THEN Infinity
  ELSE LeadingDigits(toString(s), 0, FALSE)

isNaN(x) == x = NaN

\* ------------------------------------------------------------ turf.distance
\* haversine distance in metres (earth radius 6371008.8 m) between
\* (lat1, lng) and (lat2, lng + dlng), keyed <<lat1, lat2, |dlng|>> in degrees
HaversineMeters ==
    <<7, 33, 0>> :> 2891072 @@
    <<7, 33, 4>> :> 2920404 @@
    <<7, 33, 66>> :> 7351328 @@
    <<7, 33, 70>> :> 7722129 @@
    <<7, 37, 0>> :> 3335852 @@
    <<7, 37, 4>> :> 3360375 @@
    <<7, 37, 66>> :> 7415253 @@
    <<7, 37, 70>> :> 7767131 @@
    <<33, 33, 0>> :> 0 @@
    <<33, 33, 4>> :> 373002 @@
    <<33, 33, 66>> :> 6044354 @@
    <<33, 33, 70>> :> 6394486 @@
    <<33, 37, 0>> :> 444780 @@
    <<33, 37, 4>> :> 574825 @@
    <<33, 37, 66>> :> 5906206 @@
    <<33, 37, 70>> :> 6244879 @@
    <<37, 33, 0>> :> 444780 @@
    <<37, 33, 4>> :> 574825 @@
    <<37, 33, 66>> :> 5906206 @@
    <<37, 33, 70>> :> 6244879 @@
    <<37, 37, 0>> :> 0 @@
    <<37, 37, 4>> :> 355191 @@
    <<37, 37, 66>> :> 5733944 @@
    <<37, 37, 70>> :> 6063064

Abs(x) == IF x < 0 THEN -x ELSE x

IsFinite(x) == x /= NaN /\ x /= Infinity

\* a planar distance in squared degrees in place of the great-circle distance
distance_planar(from, to) ==
  IF \E k \in 1..2 : ~IsFinite(from[k]) \/ ~IsFinite(to[k])
    THEN NaN
    ELSE (from[1] - to[1]) * (from[1] - to[1]) + (from[2] - to[2]) * (from[2] - to[2])

\* turf.distance(from, to) on two [lng, lat] pairs; sin and cos of a
\* non-finite or non-numeric coordinate are NaN
distance(from, to) ==
  IF \E k \in 1..2 : ~IsFinite(from[k]) \/ ~IsFinite(to[k])
    THEN NaN
    ELSE HaversineMeters[<<from[2], to[2], Abs(from[1] - to[1])>>]

\* d <= minDist in place of d < minDist
LessThan_orEqual(d, m) == d /= NaN /\ m /= NaN /\ d <= m

\* d < minDist on numbers: every comparison with NaN is false
LessThan(d, m) == d /= NaN /\ m /= NaN /\ d < m

\* the digits after the second decimal are cut off
toFixed2_truncated(meters) == IF IsFinite(meters) THEN meters \div 10 ELSE meters

\* minDist.toFixed(2) parsed back: hundredths of a kilometre, half up
toFixed2(meters) == IF IsFinite(meters) THEN (meters + 5) \div 10 ELSE meters

\* ------------------------------------------------------------ the data file
NoProperties ==
  [present |-> FALSE, name |-> undefined, name_clean |-> undefined,
   category_group |-> NoValue, amenity |-> NoValue]

NoGeometry == [present |-> FALSE, coordinates |-> <<NaN, NaN>>]

Props(n, nc, cg, am) ==
  [present |-> TRUE, name |-> n, name_clean |-> nc,
   category_group |-> cg, amenity |-> am]

Point(lng, lat) == [present |-> TRUE, coordinates |-> <<lng, lat>>]

Feature(p, g) == [properties |-> p, geometry |-> g]

\* the records a dataset is built from: well-formed ones at three places,
\* a raw name that differs from its cleaned form, a record with only the
\* cleaned name, and records without properties, without geometry and with
\* non-numeric coordinates
Features ==
  { Feature(Props(<<"B", "a">>, <<"b", "a">>, "Health", "hospital"), Point(73, 33)),
    Feature(Props(<<"a", "b", "a">>, <<"a", "b", "a">>, "Education", NoValue), Point(77, 33)),
    Feature(Props(<<"a", " ", " ", "b">>, <<"a", " ", "b">>, NoValue, "cafe"), Point(73, 37)),
    Feature(Props(<<"a", " ", "b">>, <<"a", " ", "b">>, "Religious", NoValue), Point(77, 33)),
    Feature(Props(undefined, <<"a", "b">>, NoValue, NoValue), Point(73, 33)),
    Feature(NoProperties, Point(77, 33)),
    Feature(Props(<<"B", "a">>, <<"b", "a">>, "Health", NoValue), NoGeometry),
    Feature(Props(<<"b">>, <<"b">>, "Park", NoValue), Point(NaN, NaN)) }

Filler == Feature(Props(<<"a", "B">>, <<"a", "b">>, "Commercial", "bank"), Point(77, 33))

SeqsUpTo(S, n) == UNION {[1..k -> S] : k \in 0..n}

PadCounts == (MaxResults - 1)..(MaxResults - 1 + MaxPad)

\* short datasets of freely chosen records, and long ones around the limit
\* of 20: at most one chosen record followed by copies of Filler
Datasets ==
  SeqsUpTo(Features, MaxPOIs)
  \cup {head \o [i \in 1..pad |-> Filler] :
          head \in {<<>>} \cup {<<f>> : f \in Features}, pad \in PadCounts}

\* enrichedPois.geojson as found at start-up
Files ==
  {[kind |-> k, features |-> <<>>] :
     k \in {"missing", "unparsable", "null", "nofeatures"}}
  \cup {[kind |-> "ok", features |-> d] : d \in Datasets}

\* ------------------------------------------------------------------- state
VARIABLES file, pc, enrichedPOIs, poiCollection, request, response
VARIABLES query, results, isSearching, showResults, searchTimeout, mounted, inflight, sent
VARIABLES timers
VARIABLES boundary, mapPois, loading, fetched
VARIABLES MAPBOX_TOKEN, effect, center, zoom, layerAdded
\* file: content of data/enrichedPois.geojson; pc: position of the start-up
\* script; enrichedPOIs, poiCollection: the two module variables; request:
\* the request being answered; response: the answer sent for it

\* query, results, isSearching, showResults: the state of the SearchBar
\* component; searchTimeout: the timer held by searchTimeoutRef; mounted:
\* whether the component is on the page; inflight: the fetches awaiting an
\* answer; sent: every q the component has sent to the back end; timers: the
\* timers of the component the browser still holds, each with the query its
\* callback closes over

\* boundary, mapPois, loading: the state of the MapView component (boundary,
\* pois, loading); boundary is the outer ring of the region polygon; fetched:
\* what the fetches of loadBoundary came to, once it has finished

\* MAPBOX_TOKEN: the token of the build; effect: position of the effect of
\* MapboxVectorLayer; center, zoom: the view of the Leaflet map; layerAdded:
\* whether the vector tile layer is on the map

server == <<file, pc, enrichedPOIs, poiCollection, request, response>>

bar == <<query, results, isSearching, showResults, searchTimeout, mounted, inflight, sent, timers>>

tiles == <<MAPBOX_TOKEN, effect, center, zoom, layerAdded>>

map == <<boundary, mapPois, loading, fetched, tiles>>

vars == <<server, bar, map>>

\* Fallback POIs (minimal) if remote fetch fails; coordinates of the map
\* view are [lat, lon] in hundredths of a degree
initialPOIs ==
  << [name |-> "F-8 Markaz", coords |-> <<3368, 7305>>, type |-> "Commercial"],
     [name |-> "Centaurus Mall", coords |-> <<3371, 7306>>, type |-> "Shopping"] >>

\* useState(null) for the boundary
NoBoundary == <<>>

\* loadBoundary has not finished
NoFetched == [run |-> <<>>, body |-> "none", ring |-> <<>>]

\* the map view right after mounting: both effects have run up to their
\* first await, fetchPOIs has called setLoading(true)
MapMounted ==
  /\ boundary = NoBoundary
  /\ fetched = NoFetched
  /\ mapPois = initialPOIs
  /\ loading = TRUE

\* <MapContainer center={[33.6844, 73.0479]} zoom={13}>, [lat, lon] in
\* hundredths of a degree, before the effect of MapboxVectorLayer has run
LayerMounted ==
  /\ effect = "pending"
  /\ center = <<3368, 7305>>
  /\ zoom = 13
  /\ layerAdded = FALSE

NoTimer == [pending |-> FALSE, query |-> <<>>]
Timer(q) == [pending |-> TRUE, query |-> q]

\* the component right after mounting: the effect has run once for query ""
BarMounted ==
  /\ query = <<>>
  /\ results = <<>>
  /\ isSearching = FALSE
  /\ showResults = FALSE
  /\ searchTimeout = Timer(<<>>)
  /\ timers = {<<>>}
  /\ mounted = TRUE
  /\ inflight = {}
  /\ sent = <<>>

\* null, or an object whose features member may be undefined
Null == [isNull |-> TRUE, hasFeatures |-> FALSE, features |-> <<>>]
Object(has, fs) == [isNull |-> FALSE, hasFeatures |-> has, features |-> fs]

NoEntry == [name |-> undefined, category |-> NoValue, coordinates |-> <<NaN, NaN>>]

\* what the Overpass API answers while GET /api/pois is handled: ok is false
\* when the call fails or the answer has no elements member
NoUpstream == [ok |-> FALSE, elements |-> <<>>]

\* what router.project-osrm.org does with a request: no answer at all, an
\* answer with an error status, or a 200 answer whose body is null, has no
\* routes member, or has zero or one route
\* process.env: NODE_ENV and FRONTEND_URL
NoEnv == [NODE_ENV |-> NoValue, FRONTEND_URL |-> undefined]

NoOsrm == [kind |-> "none", status |-> 0, routes |-> 0]

NoRequest ==
  [endpoint |-> "none", q |-> undefined, lat |-> undefined, lng |-> undefined,
   upstream |-> NoUpstream, start |-> undefined, end |-> undefined, osrm |-> NoOsrm,
   origin |-> undefined, method |-> "GET", path |-> "", env |-> NoEnv]

Response(ep, st) ==
  [endpoint |-> ep, status |-> st, error |-> NoValue, results |-> <<>>,
   hits |-> <<>>, poi |-> NoEntry, nearest |-> 0, distance_km |-> 0,
   poiDataLoaded |-> FALSE, poiCount |-> 0, osrmUrls |-> <<>>,
   allowOrigin |-> undefined, handled |-> FALSE]

\* res.status(st).json({ error: msg })
Error(ep, st, msg) == [Response(ep, st) EXCEPT !.error = msg]

\* no catch block: Express answers the exception itself, 500 with an HTML
\* page and no error body
catch_rethrow(ep, msg) == Response(ep, 500)

\* the catch block of a handler
catch(ep, msg) == Error(ep, 500, msg)

NoResponse == Response("none", 0)

Init ==
  /\ file \in Files
  /\ pc = "start"
  /\ enrichedPOIs = Null
  /\ poiCollection = Null
  /\ request = NoRequest
  /\ response = NoResponse
  /\ BarMounted
  /\ MapMounted
  /\ MAPBOX_TOKEN = <<"p", "k">>
  /\ LayerMounted

\* ------------------------------------------------------- start-up (99-112)
\* fs.existsSync, readFileSync and JSON.parse
ParseFile ==
  /\ pc = "start"
  /\ IF file.kind \in {"ok", "nofeatures"}
       THEN /\ enrichedPOIs' = Object(file.kind = "ok", file.features)
            /\ pc' = "parsed"
       ELSE IF file.kind = "null"
         \* JSON.parse gives null and enrichedPOIs.features throws
         THEN /\ enrichedPOIs' = Null
              /\ pc' = "loaded"
         \* no file (warning) or JSON.parse throws (caught)
         ELSE /\ enrichedPOIs' = Null
              /\ pc' = "loaded"
  /\ UNCHANGED <<file, poiCollection, request, response, bar, map>>

\* poiCollection = turf.featureCollection(enrichedPOIs.features); a turf
\* release that validates its argument throws on undefined features, a
\* release that does not returns {features: undefined}
BuildCollection ==
  /\ pc = "parsed"
  /\ \/ /\ poiCollection' = Object(enrichedPOIs.hasFeatures, enrichedPOIs.features)
        /\ pc' = "built"
     \/ /\ ~enrichedPOIs.hasFeatures
        /\ poiCollection' = poiCollection
        /\ pc' = "loaded"
  /\ UNCHANGED <<file, enrichedPOIs, request, response, bar, map>>

\* console.log(`Loaded ${enrichedPOIs.features.length} ...`): throws into the
\* catch block when features is undefined
LogLoaded ==
  /\ pc = "built"
  /\ pc' = "loaded"
  /\ UNCHANGED <<file, enrichedPOIs, poiCollection, request, response, bar, map>>

\* app.listen called before the load block has run to its end
Listen_early ==
  /\ pc \in {"start", "parsed", "built", "loaded"}
  /\ pc' = "listening"
  /\ UNCHANGED <<file, enrichedPOIs, poiCollection, request, response, bar, map>>

\* app.listen, the last statement of the script
Listen ==
  /\ pc = "loaded"
  /\ pc' = "listening"
  /\ UNCHANGED <<file, enrichedPOIs, poiCollection, request, response, bar, map>>

\* the array is sorted in place and ends up in another order
read_sortedInPlace(coll) ==
  [coll EXCEPT !.features =
     [i \in 1..Len(coll.features) |-> coll.features[Len(coll.features) + 1 - i]]]

\* poiCollection after a handler has run: !poiCollection, the comparison with
\* null, .features.length, filter, slice, map, forEach and turf.distance
\* read the collection and assign nothing
read(coll) == coll

\* ---------------------------------------------- GET /api/geocoding/status
\* no try/catch: poiCollection.features.length throws when features is
\* undefined and Express answers 500 itself
StatusHandler(coll) ==
  IF ~coll.isNull /\ ~coll.hasFeatures THEN Response("status", 500)
  ELSE [Response("status", 200) EXCEPT
          !.poiDataLoaded = ~coll.isNull,
          !.poiCount = IF coll.isNull THEN 0 ELSE Len(coll.features)]

Status ==
  /\ pc = "listening"
  /\ request = NoRequest
  /\ request' = [NoRequest EXCEPT !.endpoint = "status"]
  /\ response' = StatusHandler(poiCollection)
  /\ poiCollection' = read(poiCollection)
  /\ UNCHANGED <<file, pc, enrichedPOIs, bar, map>>

\* one entry more than the limit
slice_oneMore(s, n) == SubSeq(s, 1, IF Len(s) < n + 1 THEN Len(s) ELSE n + 1)

\* .slice(0, n)
slice(s, n) == SubSeq(s, 1, IF Len(s) < n THEN Len(s) ELSE n)

\* ------------------------------------------------------------ GET /api/pois
MaxPois == 50         \* .slice(0, 50)

NoTags ==
  [present |-> FALSE, name |-> NoValue, amenity |-> NoValue,
   tourism |-> NoValue, shop |-> NoValue]

Tags(n, a, t, sh) ==
  [present |-> TRUE, name |-> n, amenity |-> a, tourism |-> t, shop |-> sh]

\* a node of the Overpass answer; lat and lon in ten-thousandths of a degree,
\* NaN when the member is absent
Element(lat, lon, tags) == [lat |-> lat, lon |-> lon, tags |-> tags]

TagSets ==
  {NoTags}
  \cup {Tags(n, a, t, sh) : n \in {NoValue, "Shifa"}, a \in {NoValue, "hospital"},
                            t \in {NoValue, "museum"}, sh \in {NoValue, "mall"}}

Elements ==
  {Element(336844, 730479, tags) : tags \in TagSets}
  \cup {Element(NaN, 730479, Tags("Shifa", "hospital", NoValue, NoValue)),
        Element(336844, 0, Tags("Shifa", "hospital", NoValue, NoValue))}

\* the answers of the Overpass API: failed, no node, one node, a node without
\* position before one with, and more nodes than the limit
Upstreams ==
  {NoUpstream}
  \cup {[ok |-> TRUE, elements |-> es] :
          es \in {<<>>} \cup {<<e>> : e \in Elements}
                 \cup {<<Element(NaN, 730479, NoTags), e>> : e \in Elements}
                 \cup {[i \in 1..(MaxPois + 1) |->
                          Element(336844, 730479, Tags(NoValue, NoValue, NoValue, "mall"))]}}

\* el.lat && el.lon
HasLatLon(el) == el.lat /= NaN /\ el.lat /= 0 /\ el.lon /= NaN /\ el.lon /= 0

\* .filter(el => el.lat && el.lon): the positions of the nodes kept, from i on
RECURSIVE filterLatLon(_, _)
filterLatLon(elements, i) ==
  IF i > Len(elements) THEN <<>>
  ELSE (IF HasLatLon(elements[i]) THEN <<i>> ELSE <<>>) \o filterLatLon(elements, i + 1)

\* el.tags?.name || el.tags?.amenity || el.tags?.tourism || 'Unnamed POI'
PoiName(tags) ==
  OrElseTag(tags.name, tags.amenity, OrElseTag(tags.tourism, NoValue, "Unnamed POI"))

\* el.tags?.amenity || el.tags?.tourism || el.tags?.shop || 'Other'
PoiType(tags) ==
  OrElseTag(tags.amenity, tags.tourism, OrElseTag(tags.shop, NoValue, "Other"))

\* the callback of .map
PoiEntry(el) ==
  [name |-> PoiName(el.tags), coords |-> <<el.lat, el.lon>>, type |-> PoiType(el.tags)]

\* the list sent from the catch block
DefaultPOIs ==
  << [name |-> "F-8 Markaz", coords |-> <<336844, 730479>>, type |-> "Commercial"],
     [name |-> "F-10 Markaz", coords |-> <<336900, 730450>>, type |-> "Commercial"],
     [name |-> "Centaurus Mall", coords |-> <<337135, 730623>>, type |-> "Shopping"],
     [name |-> "Pakistan Monument", coords |-> <<336934, 730678>>, type |-> "Landmark"],
     [name |-> "Faisal Mosque", coords |-> <<337294, 730366>>, type |-> "Religious"] >>

\* the handler of GET /api/pois: the response sent when the Overpass API
\* answers up
PoisHandler(up) ==
  IF ~up.ok THEN [Response("pois", 200) EXCEPT !.results = DefaultPOIs]
  ELSE
    LET hits == slice(filterLatLon(up.elements, 1), MaxPois)
    IN [Response("pois", 200) EXCEPT
          !.results = [k \in 1..Len(hits) |-> PoiEntry(up.elements[hits[k]])],
          !.hits = hits]

ApiPois ==
  /\ pc = "listening"
  /\ request = NoRequest
  /\ \E up \in Upstreams :
       /\ request' = [NoRequest EXCEPT !.endpoint = "pois", !.upstream = up]
       /\ response' = PoisHandler(up)
  /\ UNCHANGED <<file, pc, enrichedPOIs, poiCollection, bar, map>>

\* ------------------------------------------------------------ GET /search
\* f.properties?.name || f.properties?.name_clean || ''
SearchName(f) == OrElse(f.properties.name, f.properties.name_clean, <<>>)

\* f.properties?.name || f.properties?.name_clean || 'Unnamed'
DisplayName(f) ==
  OrElse(f.properties.name, f.properties.name_clean,
         <<"U", "n", "n", "a", "m", "e", "d">>)

\* f.properties?.category_group || f.properties?.amenity || 'N/A'
Category(f) == OrElseTag(f.properties.category_group, f.properties.amenity, "N/A")

\* the callback of .filter
Matches(f, searchQuery) == includes(toLowerCase(SearchName(f)), searchQuery)

\* .filter: the positions, in dataset order from i on, of the matching records
RECURSIVE filter(_, _, _)
filter(features, searchQuery, i) ==
  IF i > Len(features) THEN <<>>
  ELSE (IF Matches(features[i], searchQuery) THEN <<i>> ELSE <<>>)
         \o filter(features, searchQuery, i + 1)

\* the callback of .map; f.geometry.coordinates throws without a geometry
Entry(f) ==
  [name |-> DisplayName(f), category |-> Category(f),
   coordinates |-> f.geometry.coordinates]

\* q.toLowerCase().trim()
SearchQuery(q) == trim(toLowerCase(q))

\* the handler of GET /search: the response sent for parameter q
SearchHandler(coll, q) ==
  IF Falsy(q) THEN Error("search", 400, "Query parameter q is required")
  ELSE IF coll.isNull THEN Error("search", 503, "POI data not loaded")
  \* q.toLowerCase is not a function when q is an array
  ELSE IF IsArray(q) THEN catch("search", "Search failed")
  ELSE IF ~coll.hasFeatures THEN catch("search", "Search failed")
  ELSE
    LET hits == slice(filter(coll.features, SearchQuery(q), 1), MaxResults)
    IN IF \E k \in 1..Len(hits) : ~coll.features[hits[k]].geometry.present
         THEN catch("search", "Search failed")
         ELSE [Response("search", 200) EXCEPT
                 !.results = [k \in 1..Len(hits) |-> Entry(coll.features[hits[k]])],
                 !.hits = hits]

QueryChars == {"a", "b", "B", " ", "\t"}

\* absent, a text, or a repeated parameter: ?q=a&q=b and ?q[]=
Queries ==
  {undefined, ArrayOf(<<"a", ",", "b">>), ArrayOf(<<>>)}
  \cup SeqsUpTo(QueryChars, MaxQueryLen)

Search ==
  /\ pc = "listening"
  /\ request = NoRequest
  /\ \E q \in Queries :
       /\ request' = [NoRequest EXCEPT !.endpoint = "search", !.q = q]
       /\ response' = SearchHandler(poiCollection, q)
  /\ poiCollection' = read(poiCollection)
  /\ UNCHANGED <<file, pc, enrichedPOIs, bar, map>>

\* ------------------------------------------------------------ GET /reverse
\* the forEach loop from record i on: [nearest, minDist] after the last record
RECURSIVE Scan(_, _, _, _, _)
Scan(features, queryPoint, i, nearest, minDist) ==
  IF i > Len(features) THEN [nearest |-> nearest, minDist |-> minDist]
  ELSE
    LET d == distance(queryPoint, features[i].geometry.coordinates)
    IN IF LessThan(d, minDist)
         THEN Scan(features, queryPoint, i + 1, i, d)
         ELSE Scan(features, queryPoint, i + 1, nearest, minDist)

\* the handler of GET /reverse: the response sent for parameters lat and lng
ReverseHandler(coll, lat, lng) ==
  IF Falsy(lat) \/ Falsy(lng) THEN Error("reverse", 400, "lat and lng required")
  ELSE IF coll.isNull THEN Error("reverse", 503, "POI data not loaded")
  ELSE IF isNaN(parseFloat(lat)) \/ isNaN(parseFloat(lng))
    THEN Error("reverse", 400, "Invalid lat/lng format")
  \* forEach of undefined, or turf.distance on a record without geometry
  ELSE IF ~coll.hasFeatures THEN catch("reverse", "Reverse geocoding failed")
  ELSE IF \E i \in 1..Len(coll.features) : ~coll.features[i].geometry.present
    THEN catch("reverse", "Reverse geocoding failed")
  ELSE
    LET queryPoint == <<parseFloat(lng), parseFloat(lat)>>
        found == Scan(coll.features, queryPoint, 1, 0, Infinity)
    IN IF found.nearest = 0 THEN Error("reverse", 404, "No POI found")
       ELSE [Response("reverse", 200) EXCEPT
               !.poi = Entry(coll.features[found.nearest]),
               !.nearest = found.nearest,
               !.distance_km = toFixed2(found.minDist)]

LatTexts ==
  {undefined, <<>>, <<"x">>, <<"3", "3">>, <<"3", "7">>, <<"7">>,
   <<"3", "3", "x">>, <<"Infinity">>, ArrayOf(<<"3", "3", ",", "3", "7">>)}

LngTexts ==
  {undefined, <<"x">>, <<"7", "3">>, <<"7", "7">>, <<"7">>, <<"7", "3", "x">>,
   ArrayOf(<<"x", ",", "7", "3">>)}

Reverse ==
  /\ pc = "listening"
  /\ request = NoRequest
  /\ \E lat \in LatTexts, lng \in LngTexts :
       /\ request' = [NoRequest EXCEPT !.endpoint = "reverse", !.lat = lat, !.lng = lng]
       /\ response' = ReverseHandler(poiCollection, lat, lng)
  /\ poiCollection' = read(poiCollection)
  /\ UNCHANGED <<file, pc, enrichedPOIs, bar, map>>

\* ------------------------------------------------------------ CORS (10-89)
\* an origin is a text in pieces: scheme, labels of the host, port
Vercel == ".vercel.app"
Netlify == ".netlify.app"

allowedOrigins(env) ==
  { <<"http://", "localhost", ":5173">>, <<"http://", "localhost", ":3000">>,
    <<"https://", "mapify-it-task", Vercel>> }
    \cup (IF Falsy(env.FRONTEND_URL) THEN {} ELSE {env.FRONTEND_URL})

\* origin.endsWith(t) for one piece t
endsWith(origin, t) == origin /= <<>> /\ origin[Len(origin)] = t

\* isOriginAllowed: no origin, an exact match, a text that ends with
\* .vercel.app, or a text that includes .netlify.app
isOriginAllowed(origin, env) ==
  \/ Falsy(origin)
  \/ origin \in allowedOrigins(env)
  \/ endsWith(origin, Vercel)
  \/ includes(origin, <<Netlify>>)

\* corsOptions.origin: callback(null, true), or callback(new Error(...))
\* for an origin that is not allowed when NODE_ENV is production
corsAccepts(origin, env) ==
  isOriginAllowed(origin, env) \/ env.NODE_ENV /= "production"

\* app.use(cors(corsOptions)), then the /data middleware, then the routes:
\* the response headers and whether a route handler ran. A rejected request
\* goes to the error handler of Express (500); the cors middleware reflects
\* the Origin header of an accepted request and answers a preflight itself
CorsHandler(origin, method, path, env) ==
  IF ~corsAccepts(origin, env) THEN Response("cors", 500)
  ELSE IF method = "OPTIONS"
    THEN [Response("cors", 204) EXCEPT !.allowOrigin = IF Falsy(origin) THEN undefined ELSE origin]
  ELSE IF path = "/data"
    THEN [Response("cors", 200) EXCEPT
            !.allowOrigin =
               (IF isOriginAllowed(origin, env) \/ env.NODE_ENV /= "production"
                  THEN IF ~Falsy(origin) THEN origin ELSE <<"*">>
                  ELSE <<"*">>),
            !.handled = TRUE]
  ELSE [Response("cors", 200) EXCEPT
          !.allowOrigin = (IF Falsy(origin) THEN undefined ELSE origin),
          !.handled = TRUE]

Envs ==
  [NODE_ENV : {NoValue, "production"},
   FRONTEND_URL : {undefined, <<"https://", "maps", ".example">>}]

Origins ==
  { undefined,
    <<"http://", "localhost", ":5173">>,
    <<"https://", "mapify-it-task", Vercel>>,
    <<"https://", "maps", ".example">>,
    <<"https://", "preview", Vercel>>,
    <<"https://", "preview", Vercel, ":8443">>,
    <<"https://", "preview", Netlify>>,
    <<"https://", "preview", Netlify, ".evil", ".example">>,
    <<"https://", "preview", Vercel, ".evil", ".example">>,
    <<"https://", "evil", ".example">> }

\* a request with an Origin header through the middleware chain
Cors ==
  /\ pc = "listening"
  /\ request = NoRequest
  /\ \E origin \in Origins, method \in {"GET", "OPTIONS"}, path \in {"/data", "/search"},
        env \in Envs :
       /\ request' = [NoRequest EXCEPT !.endpoint = "cors", !.origin = origin,
                                       !.method = method, !.path = path, !.env = env]
       /\ response' = CorsHandler(origin, method, path, env)
  /\ UNCHANGED <<file, pc, enrichedPOIs, poiCollection, bar, map>>

\* -------------------------------------------------------------- GET /route
\* s.split(","): the parts of s between its commas
RECURSIVE split(_)
split(s) ==
  IF \A k \in 1..Len(s) : s[k] /= ","
    THEN <<s>>
    ELSE LET k == CHOOSE i \in 1..Len(s) : s[i] = "," /\ \A j \in 1..(i - 1) : s[j] /= ","
         IN <<SubSeq(s, 1, k - 1)>> \o split(SubSeq(s, k + 1, Len(s)))

\* start.split(",").map(coord => parseFloat(coord.trim()))
Coords(s) == [k \in 1..Len(split(s)) |-> parseFloat(trim(split(s)[k]))]

OsrmAnswers ==
  {[kind |-> "network", status |-> 0, routes |-> 0]}
    \cup {[kind |-> "error", status |-> st, routes |-> 0] : st \in {400, 429, 502}}
    \cup {[kind |-> k, status |-> 200, routes |-> 0] : k \in {"null", "noroutes"}}
    \cup {[kind |-> "ok", status |-> 200, routes |-> n] : n \in {0, 1}}

\* the handler of GET /route: the response sent when OSRM, if asked,
\* answers up; osrmUrls holds the coordinates of every URL requested
RouteHandler(start, end, up) ==
  IF Falsy(start) \/ Falsy(end)
    THEN Error("route", 400, "start and end parameters required")
  \* start.split is not a function: the catch block, error.response undefined
  ELSE IF IsArray(start) \/ IsArray(end) THEN catch("route", "Routing failed")
  ELSE
    LET startCoords == Coords(start)
        endCoords == Coords(end)
    IN IF \/ Len(startCoords) /= 2 \/ Len(endCoords) /= 2
          \/ isNaN(startCoords[1]) \/ isNaN(startCoords[2])
          \/ isNaN(endCoords[1]) \/ isNaN(endCoords[2])
         THEN Error("route", 400, "Invalid coordinate format")
         ELSE
           LET osrmUrl == <<startCoords[2], startCoords[1], endCoords[2], endCoords[1]>>
               answer ==
                 CASE up.kind = "network" -> catch("route", "Routing failed")
                   [] up.kind = "error" -> Error("route", up.status, "Routing failed")
                   [] up.kind = "null" -> catch("route", "Routing failed")
                   [] up.kind = "noroutes" -> Error("route", 404, "No route found")
                   [] up.kind = "ok" /\ up.routes = 0 -> Error("route", 404, "No route found")
                   [] OTHER -> Response("route", 200)
           IN [answer EXCEPT !.osrmUrls = <<osrmUrl>>]

StartTexts ==
  {undefined, <<>>, <<"3", "3", ",", "7", "3">>, <<"3", "3">>,
   <<"3", "3", ",", "7", "3", ",", "7">>, <<"3", "3", "x", ",", "7", "3">>,
   <<"x", ",", "7", "3">>, <<" ", "3", "3", ",", " ", "7", "3">>, <<",">>,
   ArrayOf(<<"3", "3", ",", "7", "3">>)}

EndTexts ==
  {undefined, <<"3", "7", ",", "7", "7">>, <<"3", "7", ",", "7", "y">>, <<"3", "7">>}

Route ==
  /\ pc = "listening"
  /\ request = NoRequest
  /\ \E start \in StartTexts, end \in EndTexts, up \in OsrmAnswers :
       /\ request' = [NoRequest EXCEPT !.endpoint = "route", !.start = start,
                                       !.end = end, !.osrm = up]
       /\ response' = RouteHandler(start, end, up)
  /\ UNCHANGED <<file, pc, enrichedPOIs, poiCollection, bar, map>>

\* ------------------------------------------------------ GET /health-buffers
\* no route of the application matches the path: Express answers 404 itself
NotFoundHandler(path) == Response(path, 404)

NotFound ==
  /\ pc = "listening"
  /\ request = NoRequest
  /\ request' = [NoRequest EXCEPT !.endpoint = "health-buffers"]
  /\ response' = NotFoundHandler("health-buffers")
  /\ UNCHANGED <<file, pc, enrichedPOIs, poiCollection, bar, map>>

\* the response has been written and the request is over; handlers run to
\* completion one at a time on the event loop
Finish ==
  /\ request /= NoRequest
  /\ request' = NoRequest
  /\ response' = NoResponse
  /\ UNCHANGED <<file, pc, enrichedPOIs, poiCollection, bar, map>>

Next ==
  \/ ParseFile \/ BuildCollection \/ LogLoaded \/ Listen
  \/ Cors \/ Status \/ ApiPois \/ Search \/ Reverse \/ Route \/ NotFound \/ Finish

Spec == Init /\ [][Next]_vars

\* ------------------------------------------- SearchBar.jsx (the search bar)
MaxFetches == 2       \* fetches one run of the component may issue
\* the texts typed into the input: empty, blank, and texts with one or two
\* letters in either case, one with a blank in front
TypedTexts == {<<>>, <<" ">>, <<"a">>, <<"B">>, <<"a", "a">>, <<" ", "a">>}

\* the effect on [query]: the cleanup clears the pending timer, the body
\* sets a new one that closes over the new query
clearTimeout(ts, ref) == IF ref.pending THEN ts \ {ref.query} ELSE ts

\* the previous timer is not cleared
QueryEffect_noClear(q) ==
  /\ searchTimeout' = Timer(q)
  /\ timers' = timers \cup {q}

QueryEffect(q) ==
  /\ searchTimeout' = Timer(q)
  /\ timers' = clearTimeout(timers, searchTimeout) \cup {q}

\* onChange of the input: setQuery, setShowResults(true), then the effect
ChangeQuery ==
  /\ mounted
  /\ \E v \in TypedTexts :
       /\ v /= query
       /\ query' = v
       /\ QueryEffect(v)
  /\ showResults' = TRUE
  /\ UNCHANGED <<results, isSearching, mounted, inflight, sent, server, map>>

\* the 300 ms timer fires: performSearch(query) when the query has a
\* non-blank character, else setResults([]); performSearch tests the same
\* condition again, sets isSearching and calls fetch
TimerFires ==
  \E t \in timers :
    /\ timers' = timers \ {t}
    /\ searchTimeout' = (IF searchTimeout.query = t THEN NoTimer ELSE searchTimeout)
    /\ IF trim(t) /= <<>>
         THEN /\ Len(sent) < MaxFetches
              /\ isSearching' = (IF mounted THEN TRUE ELSE isSearching)
              /\ inflight' = inflight \cup {[id |-> Len(sent) + 1, q |-> t]}
              /\ sent' = Append(sent, t)
              /\ UNCHANGED results
         ELSE /\ results' = (IF mounted THEN <<>> ELSE results)
              /\ UNCHANGED <<isSearching, inflight, sent>>
    /\ UNCHANGED <<query, showResults, mounted, server, map>>

\* the back end answers a fetch: setResults(data.results || []) when
\* response.ok, setResults([]) otherwise; finally setIsSearching(false).
\* State setters of an unmounted component do nothing
FetchAnswered ==
  /\ \E r \in inflight :
       /\ inflight' = inflight \ {r}
       /\ IF mounted
            THEN /\ results' =
                      (IF SearchHandler(poiCollection, r.q).status = 200
                         THEN SearchHandler(poiCollection, r.q).results
                         ELSE <<>>)
                 /\ isSearching' = FALSE
            ELSE UNCHANGED <<results, isSearching>>
  /\ UNCHANGED <<query, showResults, searchTimeout, timers, mounted, sent, server, map>>

\* fetch rejects (network error): the catch block
FetchFailed ==
  /\ \E r \in inflight :
       /\ inflight' = inflight \ {r}
       /\ IF mounted
            THEN results' = <<>> /\ isSearching' = FALSE
            ELSE UNCHANGED <<results, isSearching>>
  /\ UNCHANGED <<query, showResults, searchTimeout, timers, mounted, sent, server, map>>

\* handleSelect: setQuery(result.name), setShowResults(false); the effect
\* runs when the query changed
HandleSelect ==
  /\ mounted
  /\ showResults
  /\ \E k \in 1..Len(results) :
       /\ query' = results[k].name
       /\ IF results[k].name /= query
            THEN QueryEffect(results[k].name)
            ELSE UNCHANGED <<searchTimeout, timers>>
  /\ showResults' = FALSE
  /\ UNCHANGED <<results, isSearching, mounted, inflight, sent, server, map>>

\* onFocus and the mousedown listener
ToggleResults ==
  /\ mounted
  /\ showResults' = ~showResults
  /\ UNCHANGED <<query, results, isSearching, searchTimeout, timers, mounted, inflight, sent, server, map>>

\* the component is removed: the effect cleanup clears the timer of the ref
Unmount ==
  /\ mounted
  /\ mounted' = FALSE
  /\ searchTimeout' = NoTimer
  /\ timers' = clearTimeout(timers, searchTimeout)
  /\ UNCHANGED <<query, results, isSearching, showResults, inflight, sent, server, map>>

\* the search bar against a back end that is up: nothing loaded, or one of
\* the one-record datasets
BarInit ==
  /\ file \in {f \in Files : f.kind = "missing" \/ (f.kind = "ok" /\ Len(f.features) = 1)}
  /\ pc = "listening"
  /\ enrichedPOIs = (IF file.kind = "ok" THEN Object(TRUE, file.features) ELSE Null)
  /\ poiCollection = enrichedPOIs
  /\ request = NoRequest
  /\ response = NoResponse
  /\ BarMounted
  /\ MapMounted
  /\ MAPBOX_TOKEN = <<"p", "k">>
  /\ LayerMounted

BarNext ==
  \/ ChangeQuery \/ TimerFires \/ FetchAnswered \/ FetchFailed
  \/ HandleSelect \/ ToggleResults \/ Unmount

SearchBarSpec == BarInit /\ [][BarNext]_vars

\* --------------------------------------------- MapView.jsx (the map view)
MaxRawPois == 2       \* longest rawPois.geojson

MaxMarkers == 8000    \* parsed.slice(0, 8000)

\* Islamabad bounding box: [lat, lon] of the south-west and north-east corner
ISB_BOUNDS == << <<3360, 7300>>, <<3375, 7315>> >>

\* the ring of the inline fallback boundary, [lon, lat]
INLINE_BOUNDARY ==
  << <<7290, 3355>>, <<7320, 3355>>, <<7320, 3380>>, <<7290, 3380>>, <<7290, 3355>> >>

\* the rings islamabad.geojson may hold: a rectangle, and a region whose
\* north-east part is cut off
BoundaryFiles ==
  { << <<7295, 3355>>, <<7320, 3355>>, <<7320, 3380>>, <<7295, 3380>>, <<7295, 3355>> >>,
    << <<7290, 3355>>, <<7320, 3355>>, <<7290, 3380>>, <<7290, 3355>> >> }

RawProps(n, am, cg) ==
  [present |-> TRUE, name |-> n, amenity |-> am, category_group |-> cg]

NoRawProps ==
  [present |-> FALSE, name |-> NoValue, amenity |-> NoValue, category_group |-> NoValue]

\* the features rawPois.geojson may hold, coordinates [lon, lat]
RawFeatures ==
  {Feature(RawProps("Shifa", "hospital", NoValue), Point(lon, lat)) :
     lon \in {7295, 7300, 7310, 7315}, lat \in {3355, 3360, 3370, 3375}}
  \cup { Feature(NoRawProps, Point(7310, 3370)),
         Feature(RawProps(NoValue, NoValue, "Health"), Point(7300, 3360)),
         Feature(RawProps("Shifa", "hospital", NoValue), NoGeometry),
         Feature(RawProps("Shifa", "hospital", NoValue), Point(7310, 0)) }

\* how the fetches of one file go: the fetch of the DATA_BASE url rejects,
\* is answered ok, or is answered not ok and the fetch of the relative url
\* rejects, is answered not ok or is answered ok
FetchRuns ==
  {<<"error">>, <<"ok">>, <<"notok", "error">>, <<"notok", "notok">>, <<"notok", "ok">>}

\* res.ok of the response the code ends up with
GotOk(run) == run[Len(run)] = "ok"

\* rawPois.geojson as fetched: the fetches, and for an ok response its body:
\* not JSON, the JSON null, an object without features, or a collection of
\* features (short ones, and one longer than the limit of 8000)
RawAnswers ==
  {[run |-> r, body |-> "none", features |-> <<>>] : r \in {r \in FetchRuns : ~GotOk(r)}}
  \cup {[run |-> r, body |-> b, features |-> <<>>] :
          r \in {r \in FetchRuns : GotOk(r)}, b \in {"unparsable", "null", "nofeatures"}}
  \cup {[run |-> r, body |-> "features", features |-> fs] :
          r \in {r \in FetchRuns : GotOk(r)},
          fs \in SeqsUpTo(RawFeatures, MaxRawPois)
                 \cup {[i \in 1..(MaxMarkers + 1) |->
                          Feature(RawProps("Shifa", "hospital", NoValue), Point(7310, 3370))]}}

\* the callback of .map: coords is [lat, lon]
MapEntry(f) ==
  [name |-> OrElseTag(f.properties.name, f.properties.amenity, "POI"),
   coords |-> <<f.geometry.coordinates[2], f.geometry.coordinates[1]>>,
   type |-> OrElseTag(f.properties.amenity, f.properties.category_group, "POI")]

\* p.coords[0] && p.coords[1]
HasCoords(p) ==
  p.coords[1] /= NaN /\ p.coords[1] /= 0 /\ p.coords[2] /= NaN /\ p.coords[2] /= 0

\* the second .filter: inside the bounding box
InBounds(p) ==
  /\ p.coords[1] >= ISB_BOUNDS[1][1]
  /\ p.coords[1] <= ISB_BOUNDS[2][1]
  /\ p.coords[2] >= ISB_BOUNDS[1][2]
  /\ p.coords[2] <= ISB_BOUNDS[2][2]

\* the two .filter callbacks on the entry of feature f
Kept(f) == HasCoords(MapEntry(f)) /\ InBounds(MapEntry(f))

\* .map(...).filter(...).filter(...): the entries of the features kept, in
\* file order
parsed(features) ==
  LET kept == SelectSeq(features, Kept)
  IN [k \in 1..Len(kept) |-> MapEntry(kept[k])]

\* islamabad.geojson as fetched: the fetches, and for an ok response its
\* body: not JSON, the JSON null, or a collection with one polygon
BoundaryAnswers ==
  {[run |-> r, body |-> "none", ring |-> <<>>] : r \in {r \in FetchRuns : ~GotOk(r)}}
  \cup {[run |-> r, body |-> b, ring |-> <<>>] :
          r \in {r \in FetchRuns : GotOk(r)}, b \in {"unparsable", "null"}}
  \cup {[run |-> r, body |-> "features", ring |-> ring] :
          r \in {r \in FetchRuns : GotOk(r)}, ring \in BoundaryFiles}

\* no catch block around the fetches and res.json()
setBoundary_noCatch(geo) ==
  IF GotOk(geo.run)
    THEN IF geo.body = "features" THEN geo.ring ELSE NoBoundary
    ELSE IF geo.run[Len(geo.run)] = "error" THEN NoBoundary ELSE INLINE_BOUNDARY

\* the argument of the setBoundary call loadBoundary ends with: geo for an ok
\* response with a JSON body; INLINE_BOUNDARY when no response is ok, and
\* from the catch block when a fetch rejects, res.json() rejects, or
\* geo.features throws on null
setBoundary(geo) ==
  IF GotOk(geo.run) /\ geo.body = "features" THEN geo.ring ELSE INLINE_BOUNDARY

\* loadBoundary from its first fetch to its setBoundary call
loadBoundary ==
  /\ fetched = NoFetched
  /\ \E geo \in BoundaryAnswers :
       /\ fetched' = geo
       /\ boundary' = setBoundary(geo)
  /\ UNCHANGED <<mapPois, loading, tiles, server, bar>>

\* the fallback is left out
shown_noFallback(list) == slice(list, MaxMarkers)

\* parsed.length ? parsed.slice(0, 8000) : initialPOIs
shown(list) == IF list /= <<>> THEN slice(list, MaxMarkers) ELSE initialPOIs

\* fetchPOIs after setLoading(true): the fetches, res.json(), then setPois of
\* the parsed features (geo.features || []); setPois(initialPOIs) when no
\* response is ok, and from the catch block when a fetch rejects, the body
\* is not JSON or geo is null; finally setLoading(false)
fetchPOIs ==
  /\ loading
  /\ \E geo \in RawAnswers :
       mapPois' =
         (IF GotOk(geo.run) /\ geo.body \in {"nofeatures", "features"}
            THEN LET list == parsed(geo.features) IN shown(list)
            ELSE initialPOIs)
  /\ loading' = FALSE
  /\ UNCHANGED <<boundary, fetched, tiles, server, bar>>

\* the map view against a back end that is up and has nothing loaded
MapInit ==
  /\ file = [kind |-> "missing", features |-> <<>>]
  /\ pc = "listening"
  /\ enrichedPOIs = Null
  /\ poiCollection = Null
  /\ request = NoRequest
  /\ response = NoResponse
  /\ BarMounted
  /\ MapMounted
  /\ MAPBOX_TOKEN = <<"p", "k">>
  /\ LayerMounted

MapNext == loadBoundary \/ fetchPOIs

MapViewSpec == MapInit /\ [][MapNext]_vars

\* ------------------------------------ MapboxVectorLayer (MapView.jsx 61-266)
\* what the build may hold for VITE_MAPBOX_TOKEN || MAPBOX_TOKEN: nothing,
\* the empty text, the text 'undefined', a token
Tokens == { undefined, <<>>, <<"u", "n", "d", "e", "f", "i", "n", "e", "d">>, <<"p", "k">> }

\* minZoom={10}; the zoom levels the model moves through
Zooms == {10, 11, 12, 13}

\* the centres the view is moved to, [lat, lon] in hundredths of a degree
Centers == {<<lat, lon>> : lat \in {3368, 3380, 3400, 3500}, lon \in {7305, 7320, 7400, 7500}}

\* half the side of the view in hundredths of a degree: a container of
\* about 1300 pixels shows 0.22 degrees at zoom 13 and twice as much at
\* every level below
HalfSpan(z) == CASE z = 13 -> 11 [] z = 12 -> 22 [] z = 11 -> 44 [] OTHER -> 88

\* map.getBounds(): south-west and north-east corner of the view
getBounds(c, z) ==
  << <<c[1] - HalfSpan(z), c[2] - HalfSpan(z)>>, <<c[1] + HalfSpan(z), c[2] + HalfSpan(z)>> >>

\* LatLngBounds.intersects: the two boxes share at least one point
intersects(b1, b2) ==
  /\ b2[2][1] >= b1[1][1] /\ b2[1][1] <= b1[2][1]
  /\ b2[2][2] >= b1[1][2] /\ b2[1][2] <= b1[2][2]

\* the zoom test is left out
isWithinIslamabad_anyZoom(c, z) ==
  \/ /\ c[1] >= ISB_BOUNDS[1][1] /\ c[1] <= ISB_BOUNDS[2][1]
     /\ c[2] >= ISB_BOUNDS[1][2] /\ c[2] <= ISB_BOUNDS[2][2]
  \/ intersects(getBounds(c, z), ISB_BOUNDS)

\* centerInBounds || (boundsIntersect && map.getZoom() >= 11)
isWithinIslamabad(c, z) ==
  \/ /\ c[1] >= ISB_BOUNDS[1][1] /\ c[1] <= ISB_BOUNDS[2][1]
     /\ c[2] >= ISB_BOUNDS[1][2] /\ c[2] <= ISB_BOUNDS[2][2]
  \/ (intersects(getBounds(c, z), ISB_BOUNDS) /\ z >= 11)

\* updateVectorTileVisibility: the layer is added when it should show and is
\* not on the map, removed when it should not show and is on the map
updateVectorTileVisibility(c, z, added) ==
  IF isWithinIslamabad(c, z) THEN TRUE ELSE IF added THEN FALSE ELSE added

\* the effect of MapboxVectorLayer: without a token it returns before any
\* listener is registered; otherwise it registers the listeners and makes
\* the initial check
MapboxVectorLayer ==
  /\ effect = "pending"
  /\ IF Falsy(MAPBOX_TOKEN) \/ MAPBOX_TOKEN = <<"u", "n", "d", "e", "f", "i", "n", "e", "d">>
       THEN effect' = "returned" /\ UNCHANGED layerAdded
       ELSE /\ effect' = "listening"
            /\ layerAdded' = updateVectorTileVisibility(center, zoom, layerAdded)
  /\ UNCHANGED <<MAPBOX_TOKEN, center, zoom, boundary, mapPois, loading, fetched, server, bar>>

\* a move, moveend, zoomend or load event of the map, after which the view
\* is at centre c and zoom z: the listener runs if it was registered
MapEvent ==
  /\ effect /= "pending"
  /\ \E c \in Centers \cup {center}, z \in Zooms :
       /\ center' = c
       /\ zoom' = z
       /\ layerAdded' =
            (IF effect = "listening" THEN updateVectorTileVisibility(c, z, layerAdded)
                                     ELSE layerAdded)
  /\ UNCHANGED <<MAPBOX_TOKEN, effect, boundary, mapPois, loading, fetched, server, bar>>

\* the map view of a build with any of the tokens
VectorLayerInit ==
  /\ file = [kind |-> "missing", features |-> <<>>]
  /\ pc = "listening"
  /\ enrichedPOIs = Null
  /\ poiCollection = Null
  /\ request = NoRequest
  /\ response = NoResponse
  /\ BarMounted
  /\ MapMounted
  /\ MAPBOX_TOKEN \in Tokens
  /\ LayerMounted

VectorLayerNext == MapboxVectorLayer \/ MapEvent

VectorLayerSpec == VectorLayerInit /\ [][VectorLayerNext]_vars

\* ================================================================== claims
Loaded == ~poiCollection.isNull /\ poiCollection.hasFeatures

pois == poiCollection.features

Answered(ep) == response.endpoint = ep

\* the query point of the request being answered
QueryPoint == <<parseFloat(request.lng), parseFloat(request.lat)>>

\* great-circle distance in metres between two [lng, lat] pairs of numbers
GreatCircle(p, c) == HaversineMeters[<<p[2], c[2], Abs(p[1] - c[1])>>]

HasPosition(f) ==
  f.geometry.present /\ IsFinite(f.geometry.coordinates[1])
                     /\ IsFinite(f.geometry.coordinates[2])

\* C1: the POI returned by GET /reverse is at a great-circle distance from
\* the query point that is at most the distance of every other loaded POI
C1_NearestIsNearest ==
  (Answered("reverse") /\ response.status = 200) =>
    /\ response.nearest \in 1..Len(pois)
    /\ response.poi = Entry(pois[response.nearest])
    /\ HasPosition(pois[response.nearest])
    /\ \A i \in 1..Len(pois) :
         HasPosition(pois[i]) =>
           GreatCircle(QueryPoint, pois[response.nearest].geometry.coordinates)
             <= GreatCircle(QueryPoint, pois[i].geometry.coordinates)

\* a POI other than the first was returned, strictly nearer than the first
C1_Witness ==
  /\ Answered("reverse") /\ response.status = 200
  /\ response.nearest > 1
  /\ HasPosition(pois[1])
  /\ GreatCircle(QueryPoint, pois[response.nearest].geometry.coordinates)
       < GreatCircle(QueryPoint, pois[1].geometry.coordinates)

\* C7: a search whose q is missing or empty is answered 400 without a list
C7_EmptyQueryInvalid ==
  (Answered("search") /\ request.q \in {undefined, <<>>}) =>
    /\ response.status = 400
    /\ response.results = <<>>

\* q is missing or empty while POIs that would match are loaded
C7_Witness ==
  /\ Answered("search") /\ request.q \in {undefined, <<>>}
  /\ Loaded /\ Len(pois) > 0
  /\ response.status = 400

\* a parameter text that is a number from its first to its last character
EntirelyNumeric(s) ==
  /\ s /= undefined
  /\ s /= <<>>
  /\ \A k \in 1..Len(s) : IsDigit(s[k])

\* C2: with numeric lat and lng, GET /reverse answers 404 exactly when no
\* POI is loaded, and returns a POI whenever at least one is loaded,
\* whatever the records contain
C2_NotFoundIffEmpty ==
  (Answered("reverse") /\ Loaded
     /\ EntirelyNumeric(request.lat) /\ EntirelyNumeric(request.lng)) =>
    /\ (response.status = 404) <=> (Len(pois) = 0)
    /\ (Len(pois) > 0) => (response.status = 200 /\ response.nearest > 0)

\* runs of white space become one space
RECURSIVE collapse(_)
collapse(s) ==
  IF s = <<>> THEN <<>>
  ELSE IF IsWhiteSpace(Head(s)) THEN <<" ">> \o collapse(trimStart(s))
  ELSE <<Head(s)>> \o collapse(Tail(s))

\* the normal form of a name or a query: lowercased, trimmed, white space
\* collapsed
Normalize(s) == collapse(trim(toLowerCase(s)))

\* the normalized name a record carries: its name_clean member, or the
\* normal form of its name
NormalizedName(f) ==
  Normalize(IF f.properties.name_clean \notin {undefined, <<>>}
              THEN f.properties.name_clean
              ELSE IF f.properties.name \notin {undefined, <<>>}
                THEN f.properties.name
                ELSE <<>>)

Contains(s, t) == \E i \in 0..(Len(s) - Len(t)) : SubSeq(s, i + 1, i + Len(t)) = t

\* the loaded POIs whose normalized name contains the normalized query
NormalMatches(q) ==
  {i \in 1..Len(pois) : Contains(NormalizedName(pois[i]), Normalize(q))}

Hits == {response.hits[k] : k \in 1..Len(response.hits)}

AllPlaced == \A i \in 1..Len(pois) : pois[i].geometry.present

\* C3: on a dataset whose records all have a geometry, GET /search returns
\* only POIs whose normalized name contains the normalized query, all of
\* them when at most 20 match, and an empty list when none matches
C3_ExactMatches ==
  (Answered("search") /\ Loaded /\ AllPlaced
     /\ request.q \notin {undefined, <<>>} /\ ~IsArray(request.q)) =>
    /\ response.status = 200
    /\ Hits \subseteq NormalMatches(request.q)
    /\ Cardinality(NormalMatches(request.q)) <= MaxResults
         => Hits = NormalMatches(request.q)
    /\ NormalMatches(request.q) = {} => response.results = <<>>

\* the loaded POIs whose lowercased name has the lowercased, trimmed query
\* as a substring
PartialMatches(q) ==
  {i \in 1..Len(pois) :
     Contains(toLowerCase(IF pois[i].properties.name \notin {undefined, <<>>}
                            THEN pois[i].properties.name
                            ELSE IF pois[i].properties.name_clean \notin {undefined, <<>>}
                              THEN pois[i].properties.name_clean
                              ELSE <<>>),
              trim(toLowerCase(q)))}

NonBlank(q) == q /= undefined /\ ~IsArray(q) /\ trim(q) /= <<>>

CharCode(c) ==
  CASE c = "\t" -> 9 [] c = " " -> 32 [] c = "A" -> 65 [] c = "B" -> 66
    [] c = "U" -> 85 [] c = "a" -> 97 [] c = "b" -> 98 [] c = "d" -> 100
    [] c = "e" -> 101 [] c = "m" -> 109 [] c = "n" -> 110

\* s <= t in alphabetical order
RECURSIVE AlphaLeq(_, _)
AlphaLeq(s, t) ==
  IF s = <<>> THEN TRUE
  ELSE IF t = <<>> THEN FALSE
  ELSE IF CharCode(Head(s)) /= CharCode(Head(t))
    THEN CharCode(Head(s)) < CharCode(Head(t))
    ELSE AlphaLeq(Tail(s), Tail(t))

LowerName(i) == toLowerCase(DisplayName(pois[i]))

\* position of the first occurrence of the query in the name of POI i
Position(i, q) ==
  CHOOSE n \in 0..Len(LowerName(i)) :
    /\ SubSeq(LowerName(i), n + 1, n + Len(trim(toLowerCase(q)))) = trim(toLowerCase(q))
    /\ \A m \in 0..(n - 1) :
         SubSeq(LowerName(i), m + 1, m + Len(trim(toLowerCase(q)))) /= trim(toLowerCase(q))

\* POI i does not rank after POI j: prefix matches (position 0) first, then
\* ascending position, ties alphabetical
RanksBefore(i, j, q) ==
  \/ Position(i, q) < Position(j, q)
  \/ Position(i, q) = Position(j, q) /\ AlphaLeq(LowerName(i), LowerName(j))

\* C5: the list returned by GET /search is in ranking order and holds the
\* first 20 of the ranking
C5_Ranked ==
  (Answered("search") /\ response.status = 200 /\ NonBlank(request.q)) =>
    /\ \A k, l \in 1..Len(response.hits) :
         k < l => RanksBefore(response.hits[k], response.hits[l], request.q)
    /\ \A i \in PartialMatches(request.q) \ Hits :
         \A k \in 1..Len(response.hits) : RanksBefore(response.hits[k], i, request.q)

\* C6: two non-blank queries with the same normal form get the same answer,
\* and whether a POI is matched depends on its normalized name only
C6_NormalizedAlike ==
  (Answered("search") /\ Loaded /\ AllPlaced /\ NonBlank(request.q)) =>
    /\ \A q2 \in Queries :
         (NonBlank(q2) /\ Normalize(q2) = Normalize(request.q))
           => SearchHandler(poiCollection, q2) = response
    /\ Len(response.hits) < MaxResults =>
         \A i, j \in 1..Len(pois) :
           NormalizedName(pois[i]) = NormalizedName(pois[j])
             => (i \in Hits <=> j \in Hits)

\* C8: a query of white space only is never answered by GET /search with a
\* list of POIs, and the search bar never sends one
C8_BlankQueryRejected ==
  /\ (Answered("search") /\ request.q /= undefined /\ trim(request.q) = <<>>) =>
       ~(response.status = 200 /\ response.results /= <<>>)
  /\ \A k \in 1..Len(sent) : trim(sent[k]) /= <<>>

\* the search bar's half of C8
C8_BarNeverSendsBlank == \A k \in 1..Len(sent) : trim(sent[k]) /= <<>>

\* C9: GET /reverse returns a POI only when lat and lng are both entirely
\* numeric (a missing or non-numeric parameter is answered 400)
C9_NonNumericRejected ==
  (Answered("reverse") /\ response.status = 200) =>
    (EntirelyNumeric(request.lat) /\ EntirelyNumeric(request.lng))

WellFormed ==
  \/ request.endpoint = "search" /\ NonBlank(request.q)
  \/ request.endpoint = "reverse"
       /\ EntirelyNumeric(request.lat) /\ EntirelyNumeric(request.lng)

\* C10: when the file was missing or unparsable or the load threw, every
\* well-formed request is answered 503
C10_UnavailableWithoutData ==
  (file.kind /= "ok" /\ response.endpoint /= "none" /\ WellFormed) =>
    response.status = 503

\* a record without properties, without geometry or with non-numeric
\* coordinates
Malformed(f) == ~f.properties.present \/ ~HasPosition(f)

\* C11: when the loaded dataset holds a malformed record next to a
\* well-formed one, a well-formed GET /search or GET /reverse request is not
\* failed: it is answered 200
C11_MalformedNeverFatal ==
  (response.endpoint \in {"search", "reverse"} /\ Loaded /\ WellFormed
     /\ (\E i \in 1..Len(pois) : Malformed(pois[i]))
     /\ (\E j \in 1..Len(pois) : ~Malformed(pois[j]))) =>
    response.status = 200

\* C12: every GET /search and GET /reverse request, whatever its parameters
\* and the loaded data, has one response: 200 without an error body, or
\* 400, 404, 503 or 500 with an error body and nothing else
C12_OneTypedResponse ==
  (request.endpoint \in {"search", "reverse"}) =>
    /\ response.endpoint = request.endpoint
    /\ response.status \in {200, 400, 404, 503, 500}
    /\ (response.status = 200) <=> (response.error = NoValue)
    /\ response.status /= 200 =>
         (response.results = <<>> /\ response.nearest = 0)

\* a repeated q parameter on loaded data: the TypeError is answered 500
C12_Witness ==
  /\ Answered("search") /\ IsArray(request.q) /\ Loaded
  /\ response.status = 500 /\ response.error = "Search failed"

\* the response the collection as loaded gives to a request
Answer(coll, req) ==
  CASE req.endpoint = "search" -> SearchHandler(coll, req.q)
    [] req.endpoint = "reverse" -> ReverseHandler(coll, req.lat, req.lng)
    [] req.endpoint = "status" -> StatusHandler(coll)
    [] req.endpoint = "pois" -> PoisHandler(req.upstream)
    [] req.endpoint = "health-buffers" -> NotFoundHandler(req.endpoint)
    [] req.endpoint = "route" -> RouteHandler(req.start, req.end, req.osrm)
    [] req.endpoint = "cors" -> CorsHandler(req.origin, req.method, req.path, req.env)
    [] OTHER -> NoResponse

\* C13: once the server listens, no request changes enrichedPOIs or
\* poiCollection (the records, their names, categories and coordinates), and
\* the response to a request is the one the collection as loaded gives
C13_ReadOnlyAfterStartup ==
  [][pc = "listening" =>
       /\ poiCollection' = poiCollection
       /\ enrichedPOIs' = enrichedPOIs
       /\ request' /= NoRequest => response' = Answer(poiCollection, request')]_vars

\* a request has been answered from a loaded dataset of two records
C13_Witness ==
  /\ pc = "listening" /\ Loaded /\ Len(pois) = 2
  /\ response.endpoint \in {"search", "reverse", "status"}
  /\ response.status = 200

\* C14: requests are answered only once the server listens, the server
\* listens only after the load block has run to its end, and a listening
\* server holds either no collection (null) or a collection whose features
\* are all the features of the parsed file; poiCollection is non-null only
\* if enrichedPOIs was parsed
C14_PublishedAtomically ==
  /\ [](/\ request /= NoRequest => pc = "listening"
        /\ ~poiCollection.isNull => ~enrichedPOIs.isNull
        /\ (pc = "listening" /\ ~poiCollection.isNull) =>
             /\ poiCollection.hasFeatures = (file.kind = "ok")
             /\ poiCollection.features = file.features
             /\ poiCollection = enrichedPOIs)
  /\ [][pc' = "listening" => pc \in {"loaded", "listening"}]_vars

\* a request is being answered from a complete collection of two records
C14_Witness ==
  /\ pc = "listening" /\ request /= NoRequest
  /\ ~poiCollection.isNull /\ Len(file.features) = 2
  /\ poiCollection.features = file.features

\* a loaded POI lies exactly at the query point
AtQueryPoint(i) == HasPosition(pois[i]) /\ pois[i].geometry.coordinates = QueryPoint

\* C15: distance_km of a GET /reverse answer is the great-circle distance
\* between the query point and the returned POI rounded to hundredths of a
\* kilometre; on a dataset whose records all have a geometry, a query at the
\* coordinate of a POI is answered with a POI at that coordinate and
\* distance_km 0.00
C15_DistanceRounded ==
  /\ (Answered("reverse") /\ response.status = 200) =>
       LET G == GreatCircle(QueryPoint, response.poi.coordinates)
       IN /\ 10 * response.distance_km - 5 <= G
          /\ G < 10 * response.distance_km + 5
  /\ (Answered("reverse") /\ Loaded /\ AllPlaced
        /\ \E i \in 1..Len(pois) : AtQueryPoint(i)) =>
       /\ response.status = 200
       /\ response.poi.coordinates = QueryPoint
       /\ response.distance_km = 0

\* the second record lies at the query point and is the one returned, the
\* first record lies elsewhere
C15_Witness ==
  /\ Answered("reverse") /\ response.status = 200
  /\ Len(pois) = 2 /\ AtQueryPoint(2) /\ ~AtQueryPoint(1)
  /\ response.nearest = 2 /\ response.distance_km = 0

CategoryEnum ==
  {"Health", "Education", "Commercial", "Religious", "Transport", "Park",
   "Cultural", "Other"}

\* C16: every type in a GET /api/pois answer and every category in a
\* GET /search or GET /reverse answer is one of the eight categories
C16_CategoryClosure ==
  /\ Answered("pois") =>
       \A k \in 1..Len(response.results) : response.results[k].type \in CategoryEnum
  /\ (Answered("search") /\ response.status = 200) =>
       \A k \in 1..Len(response.results) :
         response.results[k].category \in CategoryEnum
  /\ (Answered("reverse") /\ response.status = 200) =>
       response.poi.category \in CategoryEnum

\* the first tag present among name, amenity, shop, tourism
FallbackName(tags) ==
  IF tags.name /= NoValue THEN tags.name
  ELSE IF tags.amenity /= NoValue THEN tags.amenity
  ELSE IF tags.shop /= NoValue THEN tags.shop
  ELSE IF tags.tourism /= NoValue THEN tags.tourism
  ELSE "Unnamed POI"

UnnamedPOI == <<"U", "n", "n", "a", "m", "e", "d", " ", "P", "O", "I">>

\* C17: the name GET /api/pois gives to a node is the value of the first tag
\* present among name, amenity, shop, tourism, and "Unnamed POI" when none
\* is; a record without any tag is listed by GET /search as "Unnamed POI"
C17_NameFallback ==
  /\ (Answered("pois") /\ request.upstream.ok) =>
       \A k \in 1..Len(response.hits) :
         response.results[k].name =
           FallbackName(request.upstream.elements[response.hits[k]].tags)
  /\ (Answered("search") /\ response.status = 200) =>
       \A k \in 1..Len(response.hits) :
         ~pois[response.hits[k]].properties.present
           => response.results[k].name = UnnamedPOI

\* the edge from a to b crosses the ray from p towards greater longitudes
Crosses(p, a, b) ==
  /\ (a[2] > p[2]) /= (b[2] > p[2])
  /\ IF b[2] > a[2]
       THEN (p[1] - a[1]) * (b[2] - a[2]) < (b[1] - a[1]) * (p[2] - a[2])
       ELSE (p[1] - a[1]) * (b[2] - a[2]) > (b[1] - a[1]) * (p[2] - a[2])

\* point-in-polygon by the parity of crossings; p and the ring are [lon, lat]
PointInPolygon(p, ring) ==
  Cardinality({i \in 1..(Len(ring) - 1) : Crosses(p, ring[i], ring[i + 1])}) % 2 = 1

\* C18: every POI the map view keeps from rawPois.geojson lies inside the
\* region boundary polygon
C18_KeptInsideBoundary ==
  (boundary /= NoBoundary /\ ~loading /\ mapPois /= initialPOIs) =>
    \A k \in 1..Len(mapPois) :
      PointInPolygon(<<mapPois[k].coords[2], mapPois[k].coords[1]>>, boundary)

\* C19: in the collection the requests are served from, two records with
\* the same non-empty normalized name lie at least 50 m apart
C19_NoNearDuplicates ==
  (pc = "listening" /\ Loaded) =>
    \A i, j \in 1..Len(pois) :
      (i < j /\ HasPosition(pois[i]) /\ HasPosition(pois[j])
         /\ NormalizedName(pois[i]) /= <<>>
         /\ NormalizedName(pois[i]) = NormalizedName(pois[j])) =>
        GreatCircle(pois[i].geometry.coordinates, pois[j].geometry.coordinates) >= 50

\* the loaded POIs of category Health
HealthPOIs ==
  IF Loaded THEN {i \in 1..Len(pois) : pois[i].properties.category_group = "Health"}
  ELSE {}

\* C20: GET /health-buffers is answered 200 with one polygon per loaded
\* Health POI, each from a different Health POI, and none for another POI
C20_HealthBuffersServed ==
  Answered("health-buffers") =>
    /\ response.status = 200
    /\ Len(response.results) = Cardinality(HealthPOIs)
    /\ Len(response.hits) = Len(response.results)
    /\ Hits = HealthPOIs

\* C21: once fetchPOIs has finished, however its fetches went, the list of
\* POIs shown is not empty and has at most 8000 entries, and the loading
\* flag is false and stays false
C21_FallbackToDefaults ==
  /\ [](~loading => (mapPois /= <<>> /\ Len(mapPois) <= 8000))
  /\ [][(mapPois' /= mapPois \/ loading' /= loading) => ~loading']_vars

\* the file held more in-bounds features than the limit: 8000 are shown
C21_Witness == ~loading /\ Len(mapPois) = 8000 /\ mapPois /= initialPOIs


\* the centre of the view lies in the Islamabad bounding box (33.60..33.75
\* north, 73.00..73.15 east)
CentreInside ==
  center[1] \in 3360..3375 /\ center[2] \in 7300..7315

\* the view and the bounding box share a point
ViewIntersects ==
  \E lat \in 3360..3375, lon \in 7300..7315 :
    /\ lat >= center[1] - HalfSpan(zoom) /\ lat <= center[1] + HalfSpan(zoom)
    /\ lon >= center[2] - HalfSpan(zoom) /\ lon <= center[2] + HalfSpan(zoom)

Expected(q) ==
  IF trim(q) = <<>> THEN <<>>
  ELSE IF SearchHandler(poiCollection, q).status = 200
         THEN SearchHandler(poiCollection, q).results
         ELSE <<>>

\* no timer is pending and no request awaits its answer
Settled == mounted /\ timers = {} /\ inflight = {}

\* C23: once every timer has fired and every request has completed, the
\* results shown are those of the current query (nothing when a request
\* failed or the query is blank): no answer to an older query is left on
\* display
C23_ResultsOfLatestQuery ==
  Settled => results \in {Expected(query), <<>>}


\* C24: the browser holds at most one timer of the search bar; a change of
\* the query leaves exactly the timer of the new query pending; a request is
\* sent only with the query the input holds when the timer fires; and no
\* timer is left once the component is unmounted
C24_Debounced ==
  /\ [](Cardinality(timers) <= 1)
  /\ [](~mounted => timers = {})
  /\ [][query' /= query => timers' = {query'}]_vars
  /\ [][sent' /= sent => sent' = Append(sent, query)]_vars

\* the timer of a two-character query has fired and its request, the only
\* one sent, is in flight
C24_Witness ==
  /\ Len(sent) = 1 /\ sent[1] = query /\ Len(query) = 2
  /\ timers = {} /\ inflight /= {}


\* C25: while the mounted search bar has a request in flight isSearching is
\* true, so 'No results found' is not on display for a query whose request
\* has not completed
C25_SearchingWhileInFlight ==
  (mounted /\ inflight /= {}) => isSearching


\* record j lies exactly as far from the query point as the POI returned
TiedWithNearest(j) ==
  /\ HasPosition(pois[j])
  /\ GreatCircle(QueryPoint, pois[j].geometry.coordinates)
       = GreatCircle(QueryPoint, pois[response.nearest].geometry.coordinates)

\* C26: when several POIs lie at the same smallest distance from the query
\* point, GET /reverse answers with the first of them in dataset order, so
\* the POI returned is determined by the dataset and the query point
C26_FirstOfTies ==
  (Answered("reverse") /\ response.status = 200) =>
    /\ \A j \in 1..Len(pois) : TiedWithNearest(j) => response.nearest <= j
    /\ response.poi = Entry(pois[response.nearest])

\* two POIs are tied for the smallest distance and the first was returned
C26_Witness ==
  /\ Answered("reverse") /\ response.status = 200
  /\ response.nearest = 1
  /\ Len(pois) >= 2 /\ TiedWithNearest(2)


\* t is a text of exactly two parts 'lat,lng', each a number
TwoNumericParts(t) ==
  /\ ~Falsy(t) /\ ~IsArray(t)
  /\ Len(split(t)) = 2
  /\ \A k \in 1..2 : EntirelyNumeric(trim(split(t)[k]))

\* C27: GET /route answers 400 and asks OSRM nothing when start or end is
\* missing or is not two numeric parts 'lat,lng'; otherwise it asks OSRM
\* once, each point as lng,lat, answers 404 for an empty route list and, when
\* OSRM fails, answers with the status of OSRM or 500
C27_RouteValidated ==
  Answered("route") =>
    IF TwoNumericParts(request.start) /\ TwoNumericParts(request.end)
      THEN /\ response.osrmUrls =
                << <<parseFloat(trim(split(request.start)[2])),
                     parseFloat(trim(split(request.start)[1])),
                     parseFloat(trim(split(request.end)[2])),
                     parseFloat(trim(split(request.end)[1]))>> >>
           /\ (request.osrm.kind = "ok" /\ request.osrm.routes = 0) => response.status = 404
           /\ request.osrm.kind = "error" => response.status = request.osrm.status
           /\ request.osrm.kind = "network" => response.status = 500
      ELSE response.status = 400 /\ response.osrmUrls = <<>>


\* the host of an origin: its pieces without the scheme and the port
IsHostPiece(t) == t \notin {"http://", "https://", ":5173", ":3000", ":8443"}
Host(origin) == SelectSeq(origin, IsHostPiece)

\* the origin is on the allow-list of the process, or its host ends with
\* .vercel.app or .netlify.app
Admissible(origin, env) ==
  \/ origin \in allowedOrigins(env)
  \/ Host(origin)[Len(Host(origin))] \in {".vercel.app", ".netlify.app"}

\* C28: in production a request whose Origin is not empty, not on the
\* allow-list and whose host does not end with .vercel.app or .netlify.app
\* reaches no route handler and gets no Access-Control-Allow-Origin header
\* that admits it
C28_CorsStrict ==
  (/\ Answered("cors")
   /\ request.env.NODE_ENV = "production"
   /\ ~Falsy(request.origin)
   /\ ~Admissible(request.origin, request.env)) =>
     /\ ~response.handled
     /\ response.allowOrigin \notin {request.origin, <<"*">>}


\* loadBoundary ended up with an ok response whose body is a GeoJSON object
Usable(geo) == geo.run[Len(geo.run)] = "ok" /\ geo.body = "features"

\* C29: once loadBoundary has finished, however its fetches went, the
\* boundary is not null, and it is the inline fallback polygon exactly when
\* no response could be used
C29_AlwaysABoundary ==
  fetched /= NoFetched =>
    /\ boundary /= NoBoundary
    /\ boundary = INLINE_BOUNDARY <=> ~Usable(fetched)
    /\ Usable(fetched) => boundary = fetched.ring

\* the relative url answered ok with a body that is not JSON, and the
\* boundary is the inline fallback
C29_Witness ==
  /\ fetched.run = <<"notok", "ok">> /\ fetched.body = "unparsable"
  /\ boundary = INLINE_BOUNDARY

====
